---- MODULE Spec2Model ----
(***************************************************************************)
(* A model of tfsdk.Attribute (src/tfsdk/attribute.go): the schema tree    *)
(* and the methods over it: validate, tfprotov6SchemaAttribute,            *)
(* modifyPlan and Equal.  One call is one behaviour: Init draws the         *)
(* receiver, the request and the response the caller hands in, and one      *)
(* action per method runs the whole method and leaves its response in       *)
(* resp.                                                                    *)
(*                                                                         *)
(* The collaborators the file only calls (the value accessors, the          *)
(* validators, the plan modifiers, attr.Value) are inputs: each carries     *)
(* the outcome it will produce, and every call of one is recorded in the    *)
(* response's log, so that "is invoked", "is visited" and "in order" are    *)
(* facts of the state.                                                      *)
(***************************************************************************)
EXTENDS Integers, Sequences, FiniteSets, TLC

VARIABLES
    op,     \* the method called
    pc,     \* "call": about to run, "return": has returned
    a,      \* the receiver, an Attribute tree
    o,      \* the Attribute the receiver is compared with by Equal
    order,  \* the order in which range yields the keys of a children map
    req,    \* the request
    resp0,  \* the response as the caller handed it in
    resp    \* the response when the method has returned

vars == <<op, pc, a, o, order, req, resp0, resp>>

----------------------------------------------------------------------------
(* Bounds of the model. *)

\* the longest list the config accessor resolves
MaxElems == 2

\* the longest Validators sequence of the receiver
MaxValidators == 2

\* the longest PlanModifiers sequence of the receiver
MaxModifiers == 2

----------------------------------------------------------------------------
(* The data model. *)

\* a nil attr.Type, and the attr.Types the model uses
NilType == "nil"
StringType == "types.StringType"
NumberType == "types.NumberType"

NestingModeUnknown == "NestingModeUnknown"
NestingModeSingle == "NestingModeSingle"
NestingModeList == "NestingModeList"
NestingModeSet == "NestingModeSet"
NestingModeMap == "NestingModeMap"

NestingModes ==
    {NestingModeUnknown, NestingModeSingle, NestingModeList, NestingModeSet,
     NestingModeMap}

\* child names, with the bytes Go compares them by
Names == {"a", "ab", "b"}

NameBytes == [a |-> <<97>>, ab |-> <<97, 98>>, b |-> <<98>>]

NoChildren == [n \in {} |-> 0]

\* Attribute.Attributes: a nil interface, or a NestedAttributes
NilAttributes ==
    [isNil |-> TRUE, nm |-> NestingModeUnknown, attrs |-> NoChildren,
     min |-> 0, max |-> 0]

NestedAttributes(nm, attrs) ==
    [isNil |-> FALSE, nm |-> nm, attrs |-> attrs, min |-> 0, max |-> 0]

GetAttributes(na) == na.attrs

GetNestingMode(na) == na.nm

GetMinItems(na) == na.min

GetMaxItems(na) == na.max

\* len(m) of a Go map
MapLen(m) == Cardinality(DOMAIN m)

Attribute(type, attributes, dep, validators, modifiers) ==
    [Type |-> type, Attributes |-> attributes,
     Description |-> "", MarkdownDescription |-> "",
     Required |-> FALSE, Optional |-> TRUE, Computed |-> FALSE,
     Sensitive |-> FALSE,
     DeprecationMessage |-> dep,
     Validators |-> validators, PlanModifiers |-> modifiers]

----------------------------------------------------------------------------
(* tftypes.AttributePath: a sequence of steps. *)

EmptyPath == <<>>

WithAttributeName(path, name) ==
    Append(path, [step |-> "AttributeName", name |-> name, idx |-> 0])

WithElementKeyInt(path, i) ==
    Append(path, [step |-> "ElementKeyInt", name |-> "", idx |-> i])

WithElementKeyString(path, key) ==
    Append(path, [step |-> "ElementKeyString", name |-> key, idx |-> 0])

----------------------------------------------------------------------------
(* Diagnostics. *)

SeverityError == "ERROR"
SeverityWarning == "WARNING"

Diagnostic(severity, summary, detail, path) ==
    [Severity |-> severity, Summary |-> summary, Detail |-> detail,
     Attribute |-> path]

DiagsHasErrors(diags) ==
    \E i \in 1..Len(diags) : diags[i].Severity = SeverityError

----------------------------------------------------------------------------
(* attr.Value.  A value carries what the walks read of it: its dynamic     *)
(* type, whether it is null, its elements or keys (in the order range      *)
(* yields them), and whether ToTerraformValue fails on it.                  *)

Value(kind, null, elems, keys, convErr, str) ==
    [kind |-> kind, null |-> null, elems |-> elems, keys |-> keys,
     convErr |-> convErr, str |-> str]

\* the nil attr.Value
NilValue == Value("nil", TRUE, 0, <<>>, FALSE, <<>>)

StringNull == Value("types.String", TRUE, 0, <<>>, FALSE, <<>>)

StringValue(str) == Value("types.String", FALSE, 0, <<>>, FALSE, str)

\* a value whose ToTerraformValue returns an error
BrokenValue == Value("types.String", FALSE, 0, <<>>, TRUE, <<"x">>)

ListNull == Value("types.List", TRUE, 0, <<>>, FALSE, <<>>)

ListValue(n) == Value("types.List", FALSE, n, <<>>, FALSE, <<>>)

MapValue(keys) == Value("types.Map", FALSE, 0, keys, FALSE, <<>>)

ObjectValue == Value("types.Object", FALSE, 0, <<>>, FALSE, <<>>)

\* attr.Value.ToTerraformValue: (nil, nil) for a null value
ToTerraformValue(v) ==
    [err |-> v.convErr,
     tfValue |-> IF v.null \/ v.convErr THEN "nil" ELSE "value"]

----------------------------------------------------------------------------
(* The value accessors: Config, State and Plan.  An accessor answers        *)
(* GetAttribute at the path the walk starts from with `top`, at every       *)
(* other path with `nested`, and fails at the paths of `bad`.               *)

Outcome(value, fault) == [value |-> value, fault |-> fault]

Accessor(name, root, top, nested, bad) ==
    [name |-> name, root |-> root, top |-> top, nested |-> nested,
     bad |-> bad]

GetAttribute(acc, path) ==
    LET got == IF path \in acc.bad THEN Outcome(NilValue, "error")
               ELSE IF path = acc.root THEN acc.top
               ELSE acc.nested
    IN  [value |-> IF got.fault = "error" THEN NilValue ELSE got.value,
         diags |->
            IF got.fault = "error"
            THEN <<Diagnostic(SeverityError, "GetAttribute error",
                              acc.name, path)>>
            ELSE IF got.fault = "warn"
            THEN <<Diagnostic(SeverityWarning, "GetAttribute warning",
                              acc.name, path)>>
            ELSE <<>>]

----------------------------------------------------------------------------
(* The log of calls made during a walk. *)

Event(ev, path, who, k, value) ==
    [ev |-> ev, path |-> path, who |-> who, k |-> k, value |-> value]

Logged(r, e) == [r EXCEPT !.log = Append(@, e)]

AppendDiags(r, diags) == [r EXCEPT !.Diagnostics = @ \o diags]

\* e, with r evaluated first.  A loop threads its response through the
\* iterations; TLC evaluates an argument only where it is used, and would
\* start the first iteration from inside the last.
After(r, e) == IF r = r THEN e ELSE e

\* the keys of a children map in the order range yields them
Range(m) == SelectSeq(order, LAMBDA n : n \in DOMAIN m)

----------------------------------------------------------------------------
(* AttributeValidator: a validator appends what its kind says. *)

ValidatorKinds == {"vOK", "vErr"}

ValidatorDiags(v, path) ==
    IF v = "vErr"
    THEN <<Diagnostic(SeverityError, "Validator", v, path)>>
    ELSE IF v = "vWarn"
    THEN <<Diagnostic(SeverityWarning, "Validator", v, path)>>
    ELSE <<>>

----------------------------------------------------------------------------
(* Attribute.validate. *)

\* neither Attributes nor Type: the test of the first early return
DefinesNeither(attr) ==
    /\ (attr.Attributes.isNil \/ MapLen(GetAttributes(attr.Attributes)) = 0)
    /\ attr.Type = NilType

\* DefinesBoth with the length test off by one
DefinesBothOffByOne(attr) ==
    /\ ~attr.Attributes.isNil
    /\ MapLen(GetAttributes(attr.Attributes)) > 1
    /\ attr.Type # NilType

\* both Attributes and Type: the test of the second early return
DefinesBoth(attr) ==
    /\ ~attr.Attributes.isNil
    /\ MapLen(GetAttributes(attr.Attributes)) > 0
    /\ attr.Type # NilType

InvalidDefinition(detail, path) ==
    Diagnostic(SeverityError, "Invalid Attribute Definition", detail, path)

ValidationError(detail, path) ==
    Diagnostic(SeverityError, "Attribute Validation Error", detail, path)

\* ResolvedWithoutError without the test
ResolvedUnchecked(diags) == TRUE

\* whether the walk goes on after the value was resolved
ResolvedWithoutError(diags) == ~DiagsHasErrors(diags)

RECURSIVE runValidatorsUntilError(_, _, _, _)
\* runValidators ending at the first validator that reports an error
runValidatorsUntilError(validators, k, vreq, r) ==
    IF k > Len(validators) \/ DiagsHasErrors(r.Diagnostics) THEN r
    ELSE runValidatorsUntilError(validators, k + 1, vreq,
            AppendDiags(
                Logged(r, Event("Validate", vreq.AttributePath,
                                validators[k], k, vreq.AttributeConfig)),
                ValidatorDiags(validators[k], vreq.AttributePath)))

RECURSIVE runValidators(_, _, _, _)
\* for _, validator := range a.Validators, from the k-th on
runValidators(validators, k, vreq, r) ==
    IF k > Len(validators) THEN r
    ELSE runValidators(validators, k + 1, vreq,
            AppendDiags(
                Logged(r, Event("Validate", vreq.AttributePath,
                                validators[k], k, vreq.AttributeConfig)),
                ValidatorDiags(validators[k], vreq.AttributePath)))

\* deprecation with no warning once the walk has reported an error
deprecationUnlessErrors(attr, attributeConfig, path, r) ==
    IF /\ attr.DeprecationMessage # "" /\ attributeConfig # NilValue
       /\ ~DiagsHasErrors(r.Diagnostics)
    THEN LET tf == ToTerraformValue(attributeConfig)
         IN  IF tf.err
             THEN AppendDiags(r,
                    <<ValidationError("cannot convert value", path)>>)
             ELSE IF tf.tfValue # "nil"
             THEN AppendDiags(r,
                    <<Diagnostic(SeverityWarning, "Attribute Deprecated",
                                 attr.DeprecationMessage, path)>>)
             ELSE r
    ELSE r

\* the deprecation warning that ends validate
deprecation(attr, attributeConfig, path, r) ==
    IF attr.DeprecationMessage # "" /\ attributeConfig # NilValue
    THEN LET tf == ToTerraformValue(attributeConfig)
         IN  IF tf.err
             THEN AppendDiags(r,
                    <<ValidationError("cannot convert value", path)>>)
             ELSE IF tf.tfValue # "nil"
             THEN AppendDiags(r,
                    <<Diagnostic(SeverityWarning, "Attribute Deprecated",
                                 attr.DeprecationMessage, path)>>)
             ELSE r
    ELSE r

RECURSIVE validate(_, _, _)
RECURSIVE validateChildren(_, _, _, _, _)
RECURSIVE validateListElems(_, _, _, _, _)
RECURSIVE validateMapElems(_, _, _, _)

\* for nestedName, nestedAttr := range a.Attributes.GetAttributes(), at the
\* element path `base`
validateChildren(attr, names, base, vreq, r) ==
    IF names = <<>> THEN r
    ELSE LET nestedName == Head(names)
             nestedAttr == GetAttributes(attr.Attributes)[nestedName]
             nestedAttrReq ==
                [AttributePath |-> WithAttributeName(base, nestedName),
                 Config |-> vreq.Config]
             nestedAttrResp == validate(nestedAttr, nestedAttrReq, r)
         IN  After(nestedAttrResp,
                validateChildren(attr, Tail(names), base, vreq,
                                 nestedAttrResp))

\* validateListElems ending at the first element that leaves an error
validateListElemsUntilError(attr, idx, n, vreq, r) ==
    IF idx >= n \/ DiagsHasErrors(r.Diagnostics) THEN r
    ELSE LET walked ==
                validateChildren(attr, Range(GetAttributes(attr.Attributes)),
                    WithElementKeyInt(vreq.AttributePath, idx), vreq, r)
         IN  After(walked, validateListElems(attr, idx + 1, n, vreq, walked))

\* for idx := range l.Elems
validateListElems(attr, idx, n, vreq, r) ==
    IF idx >= n THEN r
    ELSE LET walked ==
                validateChildren(attr, Range(GetAttributes(attr.Attributes)),
                    WithElementKeyInt(vreq.AttributePath, idx), vreq, r)
         IN  After(walked, validateListElems(attr, idx + 1, n, vreq, walked))

\* for key := range m.Elems
validateMapElems(attr, keys, vreq, r) ==
    IF keys = <<>> THEN r
    ELSE LET walked ==
                validateChildren(attr, Range(GetAttributes(attr.Attributes)),
                    WithElementKeyString(vreq.AttributePath, Head(keys)),
                    vreq, r)
         IN  After(walked, validateMapElems(attr, Tail(keys), vreq, walked))

\* the switch on the nesting mode: the response, and whether validate
\* returns from inside it
validateNested(attr, vreq, r) ==
    LET nm == GetNestingMode(attr.Attributes)
        path == vreq.AttributePath
    IN  CASE nm = NestingModeList ->
                IF vreq.AttributeConfig.kind # "types.List"
                THEN [r |-> AppendDiags(r,
                        <<ValidationError("cannot walk schema: value type",
                                          path)>>),
                      returned |-> TRUE]
                ELSE [r |-> validateListElems(attr, 0,
                                vreq.AttributeConfig.elems, vreq, r),
                      returned |-> FALSE]
          [] nm = NestingModeSet ->
                [r |-> r, returned |-> FALSE]
          [] nm = NestingModeMap ->
                IF vreq.AttributeConfig.kind # "types.Map"
                THEN [r |-> AppendDiags(r,
                        <<ValidationError("cannot walk schema: value type",
                                          path)>>),
                      returned |-> TRUE]
                ELSE [r |-> validateMapElems(attr,
                                vreq.AttributeConfig.keys, vreq, r),
                      returned |-> FALSE]
          [] nm = NestingModeSingle ->
                [r |-> validateChildren(attr,
                            Range(GetAttributes(attr.Attributes)),
                            path, vreq, r),
                 returned |-> FALSE]
          [] OTHER ->
                [r |-> AppendDiags(r,
                        <<ValidationError("cannot walk schema: nesting mode",
                                          path)>>),
                 returned |-> TRUE]

validate(attr, vreq, r) ==
    LET path == vreq.AttributePath
        entered == Logged(r, Event("validate", path, "", 0, NilValue))
    IN  IF DefinesNeither(attr)
        THEN AppendDiags(entered,
                <<InvalidDefinition("must define either Attributes or Type",
                                    path)>>)
        ELSE IF DefinesBoth(attr)
        THEN AppendDiags(entered,
                <<InvalidDefinition("cannot define both Attributes and Type",
                                    path)>>)
        ELSE
        LET got == GetAttribute(vreq.Config, path)
            resolved ==
                AppendDiags(
                    Logged(entered,
                           Event("GetAttribute", path, vreq.Config.name, 0,
                                 NilValue)),
                    got.diags)
        IN  IF ~ResolvedWithoutError(got.diags) THEN resolved
            ELSE
            LET attributeConfig == got.value
                vreq2 == [AttributePath |-> path, Config |-> vreq.Config,
                          AttributeConfig |-> attributeConfig]
                validated == runValidators(attr.Validators, 1, vreq2, resolved)
                nested == IF ~attr.Attributes.isNil
                          THEN validateNested(attr, vreq2, validated)
                          ELSE [r |-> validated, returned |-> FALSE]
            IN  IF nested.returned THEN nested.r
                ELSE deprecation(attr, attributeConfig, path, nested.r)

----------------------------------------------------------------------------
(* Attribute.tfprotov6SchemaAttribute. *)

RECURSIVE BytesLess(_, _)
\* s < t of two Go strings, given as their bytes
BytesLess(s, t) ==
    IF t = <<>> THEN FALSE
    ELSE IF s = <<>> THEN TRUE
    ELSE IF Head(s) # Head(t) THEN Head(s) < Head(t)
    ELSE BytesLess(Tail(s), Tail(t))

StringLess(s, t) == BytesLess(NameBytes[s], NameBytes[t])

NilSchemaObject ==
    [isNil |-> TRUE, Nesting |-> "", MinItems |-> 0, MaxItems |-> 0,
     Attributes |-> <<>>]

NilSchemaAttribute ==
    [isNil |-> TRUE, Name |-> "", Required |-> FALSE, Optional |-> FALSE,
     Computed |-> FALSE, Sensitive |-> FALSE, Deprecated |-> FALSE,
     Description |-> "", DescriptionKind |-> "", Type |-> NilType,
     NestedType |-> NilSchemaObject]

\* the less function handed to sort.Slice
AttributesLess(x, y) ==
    IF x.isNil THEN TRUE
    ELSE IF y.isNil THEN FALSE
    ELSE StringLess(x.Name, y.Name)

RECURSIVE InsertSorted(_, _)
InsertSorted(x, sorted) ==
    IF sorted = <<>> THEN <<x>>
    ELSE IF AttributesLess(x, Head(sorted)) THEN <<x>> \o sorted
    ELSE <<Head(sorted)>> \o InsertSorted(x, Tail(sorted))

RECURSIVE InsertAll(_, _)
InsertAll(attributes, sorted) ==
    IF attributes = <<>> THEN sorted
    ELSE InsertAll(Tail(attributes), InsertSorted(Head(attributes), sorted))

\* SortAttributes with the sort left out
SortAttributesOmitted(attributes) == attributes

\* sort.Slice(object.Attributes, less): the sequence ordered by less
SortAttributes(attributes) == InsertAll(attributes, <<>>)

\* the record built before the definition is looked at
SchemaAttributeHead(attr, name) ==
    [isNil |-> FALSE, Name |-> name,
     Required |-> attr.Required, Optional |-> attr.Optional,
     Computed |-> attr.Computed, Sensitive |-> attr.Sensitive,
     Deprecated |-> attr.DeprecationMessage # "",
     Description |->
        IF attr.MarkdownDescription # "" THEN attr.MarkdownDescription
        ELSE attr.Description,
     DescriptionKind |->
        IF attr.MarkdownDescription # "" THEN "MARKDOWN"
        ELSE IF attr.Description # "" THEN "PLAIN"
        ELSE "",
     Type |-> NilType,
     NestedType |-> NilSchemaObject]

\* WireNesting with a default for the modes it does not know
WireNestingDefaulting(nm) ==
    CASE nm = NestingModeSingle -> "SINGLE"
      [] nm = NestingModeList -> "LIST"
      [] nm = NestingModeSet -> "SET"
      [] nm = NestingModeMap -> "MAP"
      [] OTHER -> "SINGLE"

\* the wire nesting mode, "" for a mode the switch does not know
WireNesting(nm) ==
    CASE nm = NestingModeSingle -> "SINGLE"
      [] nm = NestingModeList -> "LIST"
      [] nm = NestingModeSet -> "SET"
      [] nm = NestingModeMap -> "MAP"
      [] OTHER -> ""

Converted(schemaAttribute) == [schemaAttribute |-> schemaAttribute, err |-> ""]

ConversionError(err) == [schemaAttribute |-> NilSchemaAttribute, err |-> err]

RECURSIVE tfprotov6SchemaAttribute(_, _, _)
RECURSIVE convertChildren(_, _, _, _)

\* for nestedName, nestedA := range a.Attributes.GetAttributes(): the
\* converted children in the order of the range, or the first error
convertChildren(attr, names, path, attributes) ==
    IF names = <<>> THEN [attributes |-> attributes, err |-> ""]
    ELSE LET nestedName == Head(names)
             nested == tfprotov6SchemaAttribute(
                            GetAttributes(attr.Attributes)[nestedName],
                            nestedName, WithAttributeName(path, nestedName))
         IN  IF nested.err # "" THEN [attributes |-> <<>>, err |-> nested.err]
             ELSE convertChildren(attr, Tail(names), path,
                        Append(attributes, nested.schemaAttribute))

tfprotov6SchemaAttribute(attr, name, path) ==
    LET schemaAttribute == SchemaAttributeHead(attr, name)
    IN  IF /\ ~attr.Attributes.isNil
           /\ MapLen(GetAttributes(attr.Attributes)) > 0
           /\ attr.Type # NilType
        THEN ConversionError("can't have both Attributes and Type set")
        ELSE IF /\ (attr.Attributes.isNil
                    \/ MapLen(GetAttributes(attr.Attributes)) < 1)
                /\ attr.Type = NilType
        THEN ConversionError("must have Attributes or Type set")
        ELSE IF attr.Type # NilType
        THEN Converted([schemaAttribute EXCEPT !.Type = attr.Type])
        ELSE
        LET nm == GetNestingMode(attr.Attributes)
        IN  IF WireNesting(nm) = ""
            THEN ConversionError("unrecognized nesting mode")
            ELSE
            LET children == convertChildren(attr,
                                Range(GetAttributes(attr.Attributes)),
                                path, <<>>)
            IN  IF children.err # "" THEN ConversionError(children.err)
                ELSE Converted(
                        [schemaAttribute EXCEPT !.NestedType =
                            [isNil |-> FALSE, Nesting |-> WireNesting(nm),
                             MinItems |-> GetMinItems(attr.Attributes),
                             MaxItems |-> GetMaxItems(attr.Attributes),
                             Attributes |->
                                SortAttributes(children.attributes)]])

----------------------------------------------------------------------------
(* AttributePlanModifier: a modifier does what its kind says to the        *)
(* response it is handed.                                                   *)

ModifierKinds == {"mNone", "mWarn", "mErr", "mSetX", "mSuffix"}

Modify(m, modifyReq, r) ==
    CASE m = "mWarn" ->
            AppendDiags(r, <<Diagnostic(SeverityWarning, "Modifier", m,
                                        modifyReq.AttributePath)>>)
      [] m = "mErr" ->
            AppendDiags(r, <<Diagnostic(SeverityError, "Modifier", m,
                                        modifyReq.AttributePath)>>)
      [] m = "mSetX" ->
            [r EXCEPT !.AttributePlan = StringValue(<<"X">>)]
      [] m = "mSuffix" ->
            IF /\ modifyReq.AttributePlan.kind = "types.String"
               /\ ~modifyReq.AttributePlan.null
            THEN [r EXCEPT !.AttributePlan =
                    StringValue(Append(modifyReq.AttributePlan.str,
                                       "-suffix"))]
            ELSE r
      [] OTHER -> r

----------------------------------------------------------------------------
(* Attribute.modifyPlan. *)

\* NextModifyReq with the assignment left out
NextModifyReqUnthreaded(modifyReq, r) == modifyReq

\* modifyReq.AttributePlan = resp.AttributePlan
NextModifyReq(modifyReq, r) ==
    [modifyReq EXCEPT !.AttributePlan = r.AttributePlan]

\* the test that ends the loop over the plan modifiers
ModifiersStop(r) == DiagsHasErrors(r.Diagnostics)

RECURSIVE runPlanModifiers(_, _, _, _)
\* for _, planModifier := range a.PlanModifiers, from the k-th on
runPlanModifiers(modifiers, k, modifyReq, r) ==
    IF k > Len(modifiers) THEN r
    ELSE LET modified == Modify(modifiers[k], modifyReq, r)
             called == [modified EXCEPT !.calls =
                            Append(@, [who |-> modifiers[k], k |-> k,
                                       req |-> modifyReq,
                                       appended |->
                                        SubSeq(modified.Diagnostics,
                                               Len(r.Diagnostics) + 1,
                                               Len(modified.Diagnostics)),
                                       out |-> modified.AttributePlan])]
         IN  IF ModifiersStop(called) THEN called
             ELSE runPlanModifiers(modifiers, k + 1,
                        NextModifyReq(modifyReq, called), called)

modifyPlan(attr, mreq, r) ==
    LET path == mreq.AttributePath
        entered == Logged(r, Event("modifyPlan", path, "", 0, NilValue))
        config == GetAttribute(mreq.Config, path)
        r1 == AppendDiags(
                Logged(entered, Event("GetAttribute", path, mreq.Config.name,
                                      0, NilValue)),
                config.diags)
    IN  IF DiagsHasErrors(config.diags) THEN r1
        ELSE
        LET state == GetAttribute(mreq.State, path)
            r2 == AppendDiags(
                    Logged(r1, Event("GetAttribute", path, mreq.State.name,
                                     0, NilValue)),
                    state.diags)
        IN  IF DiagsHasErrors(state.diags) THEN r2
            ELSE
            LET plan == GetAttribute(mreq.Plan, path)
                r3 == AppendDiags(
                        Logged(r2, Event("GetAttribute", path,
                                         mreq.Plan.name, 0, NilValue)),
                        plan.diags)
            IN  IF DiagsHasErrors(plan.diags) THEN r3
                ELSE
                LET modifyReq ==
                        [AttributePath |-> path,
                         Config |-> mreq.Config,
                         State |-> mreq.State,
                         Plan |-> mreq.Plan,
                         AttributeConfig |-> config.value,
                         AttributeState |-> state.value,
                         AttributePlan |-> plan.value,
                         ProviderMeta |-> mreq.ProviderMeta]
                IN  runPlanModifiers(attr.PlanModifiers, 1, modifyReq, r3)

----------------------------------------------------------------------------
(* Attribute.Equal. *)

\* attr.Type.Equal of the primitive types
TypeEqual(t, u) == t = u

RECURSIVE Equal(_, _)
RECURSIVE NestedAttributesEqual(_, _)
\* NestedAttributes.Equal: the same nesting mode and bounds, the same names,
\* and Equal children
NestedAttributesEqual(s, other) ==
    /\ GetNestingMode(s) = GetNestingMode(other)
    /\ GetMinItems(s) = GetMinItems(other)
    /\ GetMaxItems(s) = GetMaxItems(other)
    /\ MapLen(GetAttributes(other)) = MapLen(GetAttributes(s))
    /\ \A k \in DOMAIN GetAttributes(s) :
          /\ k \in DOMAIN GetAttributes(other)
          /\ Equal(GetAttributes(s)[k], GetAttributes(other)[k])

\* Equal that compares the Validators too
EqualWithValidators(attr, other) ==
    IF attr.Type = NilType /\ other.Type # NilType THEN FALSE
    ELSE IF attr.Type # NilType /\ other.Type = NilType THEN FALSE
    ELSE IF attr.Type # NilType /\ other.Type # NilType
            /\ ~TypeEqual(attr.Type, other.Type) THEN FALSE
    ELSE IF attr.Attributes.isNil /\ ~other.Attributes.isNil THEN FALSE
    ELSE IF ~attr.Attributes.isNil /\ other.Attributes.isNil THEN FALSE
    ELSE IF ~attr.Attributes.isNil /\ ~other.Attributes.isNil
            /\ ~NestedAttributesEqual(attr.Attributes, other.Attributes)
    THEN FALSE
    ELSE IF attr.Description # other.Description THEN FALSE
    ELSE IF attr.MarkdownDescription # other.MarkdownDescription THEN FALSE
    ELSE IF attr.Required # other.Required THEN FALSE
    ELSE IF attr.Optional # other.Optional THEN FALSE
    ELSE IF attr.Computed # other.Computed THEN FALSE
    ELSE IF attr.Sensitive # other.Sensitive THEN FALSE
    ELSE IF attr.DeprecationMessage # other.DeprecationMessage THEN FALSE
    ELSE IF attr.Validators # other.Validators THEN FALSE
    ELSE TRUE

Equal(attr, other) ==
    IF attr.Type = NilType /\ other.Type # NilType THEN FALSE
    ELSE IF attr.Type # NilType /\ other.Type = NilType THEN FALSE
    ELSE IF attr.Type # NilType /\ other.Type # NilType
            /\ ~TypeEqual(attr.Type, other.Type) THEN FALSE
    ELSE IF attr.Attributes.isNil /\ ~other.Attributes.isNil THEN FALSE
    ELSE IF ~attr.Attributes.isNil /\ other.Attributes.isNil THEN FALSE
    ELSE IF ~attr.Attributes.isNil /\ ~other.Attributes.isNil
            /\ ~NestedAttributesEqual(attr.Attributes, other.Attributes)
    THEN FALSE
    ELSE IF attr.Description # other.Description THEN FALSE
    ELSE IF attr.MarkdownDescription # other.MarkdownDescription THEN FALSE
    ELSE IF attr.Required # other.Required THEN FALSE
    ELSE IF attr.Optional # other.Optional THEN FALSE
    ELSE IF attr.Computed # other.Computed THEN FALSE
    ELSE IF attr.Sensitive # other.Sensitive THEN FALSE
    ELSE IF attr.DeprecationMessage # other.DeprecationMessage THEN FALSE
    ELSE TRUE

----------------------------------------------------------------------------
(* The calls the model makes: the receivers, requests and responses.       *)

RECURSIVE SeqsUpTo(_, _)
\* the sequences over S of length at most n
SeqsUpTo(S, n) ==
    IF n = 0 THEN {<<>>}
    ELSE LET shorter == SeqsUpTo(S, n - 1)
         IN  shorter \cup
             {Append(t, x) : t \in {u \in shorter : Len(u) = n - 1}, x \in S}

\* every order range can yield the child names in
Orders ==
    {ord \in [1..Cardinality(Names) -> Names] :
        \A i, j \in 1..Cardinality(Names) : i # j => ord[i] # ord[j]}

FooPath == WithAttributeName(EmptyPath, "foo")

RootPaths == {EmptyPath, FooPath}

\* a diagnostic of an attribute walked earlier, already in the response
EarlierError ==
    Diagnostic(SeverityError, "Earlier", "earlier attribute",
               WithAttributeName(EmptyPath, "earlier"))

EarlierWarning ==
    Diagnostic(SeverityWarning, "Earlier", "earlier attribute",
               WithAttributeName(EmptyPath, "earlier"))

Response(diags, plan) ==
    [Diagnostics |-> diags, AttributePlan |-> plan, log |-> <<>>,
     calls |-> <<>>, schemaAttribute |-> NilSchemaAttribute, err |-> "",
     equal |-> FALSE]

Resolves(value) == Outcome(value, "ok")

NoAccessor == Accessor("", EmptyPath, Resolves(NilValue), Resolves(NilValue), {})

Request(name, path, config, state, plan) ==
    [name |-> name, AttributePath |-> path, Config |-> config,
     State |-> state, Plan |-> plan, ProviderMeta |-> "meta"]

Call(method, attr, ord, request, response) ==
    [op |-> method, a |-> attr, o |-> attr, order |-> ord, req |-> request,
     resp0 |-> response]

\* leaves
Plain == Attribute(StringType, NilAttributes, "", <<>>, <<>>)

Checked == Attribute(StringType, NilAttributes, "use bar instead", <<"vErr">>, <<>>)

Undefined == Attribute(NilType, NilAttributes, "", <<>>, <<>>)

ChildAttributes == {Plain, Checked, Undefined}

ChildrenMaps ==
    {[n \in {"a"} |-> c] : c \in ChildAttributes}
    \cup {[n \in {"a", "b"} |-> IF n = "a" THEN c ELSE d] :
            c \in ChildAttributes, d \in ChildAttributes}

\* what Attributes is on a receiver that has no children to walk, and on
\* one that has a child
ShallowAttributes ==
    {NilAttributes}
    \cup {NestedAttributes(nm, NoChildren) :
            nm \in {NestingModeSingle, NestingModeList, NestingModeUnknown}}
    \cup {NestedAttributes(NestingModeSingle, [n \in {"a"} |-> Plain])}

Deprecations == {"", "use bar instead"}

ShallowReceivers ==
    {Attribute(type, attributes, dep, validators, <<>>) :
        type \in {NilType, StringType},
        attributes \in ShallowAttributes,
        dep \in Deprecations,
        validators \in SeqsUpTo(ValidatorKinds, MaxValidators)}

BranchReceivers ==
    {Attribute(NilType, NestedAttributes(nm, children), dv[1], dv[2], <<>>) :
        nm \in NestingModes,
        children \in ChildrenMaps,
        dv \in {<<"", <<>>>>, <<"use bar instead", <<>>>>,
                <<"use bar instead", <<"vErr", "vWarn">>>>}}

\* a branch under a branch
Inner(nm) ==
    Attribute(NilType,
              NestedAttributes(nm, [n \in {"a", "b"} |->
                                    IF n = "a" THEN Checked ELSE Plain]),
              "use bar instead", <<"vErr">>, <<>>)

DeepReceivers ==
    {Attribute(NilType,
               NestedAttributes(outer, [n \in {"a", "b"} |->
                                        IF n = "a" THEN Inner(inner)
                                        ELSE Plain]),
               "", <<>>, <<>>) :
        outer \in {NestingModeSingle, NestingModeList},
        inner \in {NestingModeSingle, NestingModeList, NestingModeMap}}

KeySeqs == {<<>>, <<"k1">>, <<"k1", "k2">>, <<"k2", "k1">>}

LeafOutcomes ==
    {Resolves(StringValue(<<"x">>)), Resolves(StringNull), Resolves(NilValue),
     Resolves(BrokenValue), Resolves(ListValue(1)),
     Outcome(StringValue(<<"x">>), "warn"), Outcome(NilValue, "error")}

BranchOutcomes ==
    {Resolves(NilValue), Resolves(StringValue(<<"x">>)), Resolves(ObjectValue),
     Resolves(ListNull),
     Outcome(ListValue(MaxElems), "warn"), Outcome(NilValue, "error")}
    \cup {Resolves(ListValue(n)) : n \in 0..MaxElems}
    \cup {Resolves(MapValue(keys)) : keys \in KeySeqs \ {<<>>}}

\* how a call on a shallow receiver starts: the path, and the diagnostics
\* already in the response
Starts == {<<EmptyPath, <<>>>>, <<FooPath, <<>>>>, <<FooPath, <<EarlierError>>>>}

\* what the accessor does below the root, and the order of range
Below(root) ==
    {[nested |-> Resolves(StringValue(<<"x">>)), bad |-> {},
      order |-> <<"a", "ab", "b">>],
     [nested |-> Resolves(StringValue(<<"x">>)), bad |-> {},
      order |-> <<"b", "ab", "a">>]}
    \cup
    {[nested |-> Resolves(StringValue(<<"x">>)), bad |-> {p},
      order |-> <<"a", "ab", "b">>] :
        p \in {WithAttributeName(root, "a"),
               WithAttributeName(WithElementKeyInt(root, 0), "a"),
               WithAttributeName(WithElementKeyString(root, "k1"), "a")}}

ValidateCalls ==
    {Call("validate", attr, <<"a", "ab", "b">>,
          Request("", st[1], Accessor("Config", st[1], top, top, {}),
                  NoAccessor, NoAccessor),
          Response(st[2], NilValue)) :
        attr \in ShallowReceivers, st \in Starts, top \in LeafOutcomes}
    \cup
    {Call("validate", attr, below.order,
          Request("", FooPath,
                  Accessor("Config", FooPath, top, below.nested, below.bad),
                  NoAccessor, NoAccessor),
          Response(<<>>, NilValue)) :
        attr \in BranchReceivers, top \in BranchOutcomes,
        below \in Below(FooPath)}
    \cup
    {Call("validate", attr, <<"a", "ab", "b">>,
          Request("", EmptyPath,
                  Accessor("Config", EmptyPath, top, nested, {}),
                  NoAccessor, NoAccessor),
          Response(<<>>, NilValue)) :
        attr \in DeepReceivers,
        top \in {Resolves(ObjectValue), Resolves(ListValue(MaxElems))},
        nested \in {Resolves(ListValue(1)), Resolves(MapValue(<<"k1">>)),
                    Resolves(ObjectValue)}}

\* children for the conversion: plain leaves, and at most one child that is
\* not
WireChildAttributes ==
    {Undefined,
     Attribute(StringType, NestedAttributes(NestingModeUnknown, NoChildren),
               "", <<>>, <<>>),
     Attribute(StringType,
               NestedAttributes(NestingModeSingle, [n \in {"a"} |-> Plain]),
               "", <<>>, <<>>)}

WireChildrenMaps ==
    {[n \in S |-> Plain] : S \in (SUBSET Names) \ {{}}}
    \cup {[n \in S |-> IF n = odd THEN c ELSE Plain] :
            S \in (SUBSET Names) \ {{}}, odd \in Names,
            c \in WireChildAttributes}

WireBranchReceivers ==
    {Attribute(type, NestedAttributes(nm, children), "", <<>>, <<>>) :
        type \in {NilType, StringType}, nm \in NestingModes,
        children \in WireChildrenMaps}

\* a branch under a branch, for the conversion
WireInner ==
    {Attribute(NilType, NestedAttributes(nm, [n \in {"b", "a"} |->
                                              IF n = "a" THEN c ELSE Plain]),
               "", <<>>, <<>>) :
        nm \in NestingModes, c \in WireChildAttributes \cup {Plain}}

WireDeepReceivers ==
    {Attribute(NilType,
               NestedAttributes(NestingModeList,
                                [n \in {"ab", "a"} |->
                                    IF n = "ab" THEN inner ELSE Plain]),
               "", <<>>, <<>>) :
        inner \in WireInner}

\* leaves that differ in what the wire record copies
DescribedReceivers ==
    {[Plain EXCEPT !.Description = d, !.MarkdownDescription = m,
                   !.DeprecationMessage = dep, !.Required = flag,
                   !.Optional = ~flag, !.Sensitive = flag] :
        d \in {"", "plain"}, m \in {"", "markdown"}, dep \in Deprecations,
        flag \in BOOLEAN}

WireCalls ==
    {Call("tfprotov6SchemaAttribute", attr, ord,
          Request("x", FooPath, NoAccessor, NoAccessor, NoAccessor),
          Response(<<>>, NilValue)) :
        attr \in WireBranchReceivers \cup WireDeepReceivers, ord \in Orders}
    \cup
    {Call("tfprotov6SchemaAttribute", attr, <<"a", "ab", "b">>,
          Request("x", path, NoAccessor, NoAccessor, NoAccessor),
          Response(<<>>, NilValue)) :
        attr \in {r \in ShallowReceivers : r.Validators = <<>>}
                 \cup DescribedReceivers,
        path \in RootPaths}

\* receivers of modifyPlan: a leaf with plan modifiers, and branches whose
\* child has one
Modified == Attribute(StringType, NilAttributes, "", <<>>, <<"mSetX">>)

ModifyReceivers ==
    {Attribute(StringType, NilAttributes, "", <<>>, modifiers) :
        modifiers \in SeqsUpTo(ModifierKinds, MaxModifiers)}
    \cup
    {Attribute(NilType,
               NestedAttributes(nm, [n \in {"a"} |-> Modified]),
               "", <<>>, modifiers) :
        nm \in {NestingModeSingle, NestingModeList, NestingModeMap},
        modifiers \in {<<>>, <<"mWarn">>}}

PlanOutcomes ==
    {Resolves(StringValue(<<"p">>)), Resolves(StringNull),
     Outcome(StringValue(<<"p">>), "warn"),
     Outcome(NilValue, "error")}

\* what Config and State resolve to
ConfigStateOutcomes ==
    {<<Resolves(StringValue(<<"c">>)), Resolves(StringValue(<<"s">>))>>,
     <<Outcome(NilValue, "error"), Resolves(StringValue(<<"s">>))>>,
     <<Resolves(StringValue(<<"c">>)), Outcome(NilValue, "error")>>}

ModifyCalls ==
    {Call("modifyPlan", attr, <<"a", "ab", "b">>,
          Request("", FooPath,
                  Accessor("Config", FooPath, cs[1], cs[1], {}),
                  Accessor("State", FooPath, cs[2], cs[2], {}),
                  Accessor("Plan", FooPath, plan, plan, {})),
          Response(diags, handed)) :
        attr \in ModifyReceivers,
        cs \in ConfigStateOutcomes,
        plan \in PlanOutcomes,
        diags \in {<<>>, <<EarlierWarning>>, <<EarlierError>>},
        handed \in {NilValue, StringValue(<<"stale">>)}}

\* the operands of Equal: leaves that differ from Plain in one field, and
\* branches that differ in their nesting mode, bounds or children
EqualLeaves ==
    {Plain, Undefined,
     [Plain EXCEPT !.Type = NumberType],
     [Plain EXCEPT !.Description = "plain"],
     [Plain EXCEPT !.MarkdownDescription = "markdown"],
     [Plain EXCEPT !.Required = TRUE, !.Optional = FALSE],
     [Plain EXCEPT !.Optional = FALSE],
     [Plain EXCEPT !.Computed = TRUE],
     [Plain EXCEPT !.Sensitive = TRUE],
     [Plain EXCEPT !.DeprecationMessage = "use bar instead"],
     [Plain EXCEPT !.Validators = <<"vErr">>],
     [Plain EXCEPT !.Validators = <<"vOK", "vErr">>],
     [Plain EXCEPT !.PlanModifiers = <<"mSetX">>],
     [Plain EXCEPT !.Validators = <<"vOK">>, !.PlanModifiers = <<"mSuffix">>]}

EqualChildrenMaps ==
    {NoChildren}
    \cup {[n \in {"a"} |-> c] :
            c \in {Plain, [Plain EXCEPT !.Validators = <<"vErr">>],
                   [Plain EXCEPT !.PlanModifiers = <<"mSetX">>],
                   [Plain EXCEPT !.Sensitive = TRUE]}}
    \cup {[n \in {"b"} |-> Plain], [n \in {"a", "b"} |-> Plain]}

EqualBranches ==
    {Attribute(NilType, NestedAttributes(nm, attrs), "", validators, <<>>) :
        nm \in {NestingModeSingle, NestingModeList},
        attrs \in EqualChildrenMaps,
        validators \in {<<>>, <<"vErr">>}}
    \cup
    {Attribute(NilType,
               [NestedAttributes(NestingModeList, [n \in {"a"} |-> Plain])
                    EXCEPT !.min = lo, !.max = hi],
               "", <<>>, <<>>) :
        lo \in {0, 1}, hi \in {0, 1}}
    \cup
    {Attribute(StringType, NestedAttributes(NestingModeSingle, NoChildren),
               "", <<>>, <<>>)}

EqualDeep ==
    {Attribute(NilType,
               NestedAttributes(NestingModeSingle, [n \in {"a"} |-> inner]),
               "", <<>>, <<>>) :
        inner \in {b \in EqualBranches :
                     /\ b.Attributes.nm = NestingModeList
                     /\ b.Attributes.max = 0
                     /\ b.Validators = <<>>
                     /\ b.Type = NilType}}

EqualOperands == EqualLeaves \cup EqualBranches \cup EqualDeep

EqualCalls ==
    {[Call("Equal", attr, <<"a", "ab", "b">>,
           Request("", EmptyPath, NoAccessor, NoAccessor, NoAccessor),
           Response(<<>>, NilValue)) EXCEPT !.o = other] :
        attr \in EqualOperands, other \in EqualOperands}

----------------------------------------------------------------------------
(* The state machine. *)

Calls == ValidateCalls \cup WireCalls \cup ModifyCalls \cup EqualCalls

Init ==
    \E c \in Calls :
        /\ op = c.op
        /\ pc = "call"
        /\ a = c.a
        /\ o = c.o
        /\ order = c.order
        /\ req = c.req
        /\ resp0 = c.resp0
        /\ resp = c.resp0

Validate ==
    /\ pc = "call"
    /\ op = "validate"
    /\ resp' = validate(a, req, resp0)
    /\ pc' = "return"
    /\ UNCHANGED <<op, a, o, order, req, resp0>>

Tfprotov6SchemaAttribute ==
    /\ pc = "call"
    /\ op = "tfprotov6SchemaAttribute"
    /\ LET converted == tfprotov6SchemaAttribute(a, req.name, req.AttributePath)
       IN  resp' = [resp0 EXCEPT !.schemaAttribute = converted.schemaAttribute,
                                 !.err = converted.err]
    /\ pc' = "return"
    /\ UNCHANGED <<op, a, o, order, req, resp0>>

ModifyPlan ==
    /\ pc = "call"
    /\ op = "modifyPlan"
    /\ resp' = modifyPlan(a, req, resp0)
    /\ pc' = "return"
    /\ UNCHANGED <<op, a, o, order, req, resp0>>

EqualCall ==
    /\ pc = "call"
    /\ op = "Equal"
    /\ resp' = [resp0 EXCEPT !.equal = Equal(a, o)]
    /\ pc' = "return"
    /\ UNCHANGED <<op, a, o, order, req, resp0>>

Next == Validate \/ Tfprotov6SchemaAttribute \/ ModifyPlan \/ EqualCall

Spec == Init /\ [][Next]_vars

----------------------------------------------------------------------------
(* What the claims speak of. *)

Returned(method) == pc = "return" /\ op = method

\* the diagnostics the call appended to those handed in
Appended ==
    SubSeq(resp.Diagnostics, Len(resp0.Diagnostics) + 1, Len(resp.Diagnostics))

KeepsEarlier ==
    /\ Len(resp.Diagnostics) >= Len(resp0.Diagnostics)
    /\ SubSeq(resp.Diagnostics, 1, Len(resp0.Diagnostics)) = resp0.Diagnostics

HasValueType(attr) == attr.Type # NilType

HasChildren(attr) == DOMAIN attr.Attributes.attrs # {}

\* exactly one of valueType and non-empty nestedAttributes
WellFormed(attr) == HasValueType(attr) # HasChildren(attr)

ChildNames(attr) == DOMAIN attr.Attributes.attrs

\* what the config accessor answers at the path of the call
Resolved == GetAttribute(req.Config, req.AttributePath)

EventsAt(ev, path) ==
    SelectSeq(resp.log, LAMBDA e : e.ev = ev /\ e.path = path)

\* the events of a kind strictly below a path
EventsBelow(ev, path) ==
    SelectSeq(resp.log,
              LAMBDA e : /\ e.ev = ev
                         /\ Len(e.path) > Len(path)
                         /\ SubSeq(e.path, 1, Len(path)) = path)

\* a validate call that got past the definition and resolved its value
ValidateResolved ==
    /\ Returned("validate")
    /\ WellFormed(a)
    /\ ~DiagsHasErrors(Resolved.diags)

----------------------------------------------------------------------------
(* C1: validate on an Attribute with both valueType and non-empty          *)
(* nestedAttributes, or with neither, appends exactly one diagnostic, an    *)
(* error "Invalid Attribute Definition" at the current path, and does       *)
(* nothing else: it resolves no value, invokes no validator and visits no   *)
(* child.                                                                   *)
C1_InvalidDefinitionOnly ==
    (Returned("validate") /\ ~WellFormed(a)) =>
        /\ KeepsEarlier
        /\ Len(Appended) = 1
        /\ Appended[1].Severity = SeverityError
        /\ Appended[1].Summary = "Invalid Attribute Definition"
        /\ Appended[1].Attribute = req.AttributePath
        /\ resp.log = <<Event("validate", req.AttributePath, "", 0, NilValue)>>

\* both set, with validators and a deprecation message, at path foo, after
\* an earlier attribute's error
C1_Witness ==
    /\ Returned("validate")
    /\ HasValueType(a) /\ HasChildren(a)
    /\ a.Validators # <<>> /\ a.DeprecationMessage # ""
    /\ req.AttributePath = FooPath
    /\ resp0.Diagnostics # <<>>
    /\ Len(resp.Diagnostics) = 2

----------------------------------------------------------------------------
(* C2: on a well-formed branch with nesting mode list whose value resolves  *)
(* to a list of N elements, validate visits every pair (index i < N, child  *)
(* c) exactly once, at path[i].c, whatever diagnostics the other visits     *)
(* left; and the diagnostics of the walk are those of the visits, one       *)
(* after the other.                                                         *)

RECURSIVE VisitDiagnostics(_)
\* the diagnostics of the visits of `events`, each validated on its own
VisitDiagnostics(events) ==
    IF events = <<>> THEN <<>>
    ELSE LET e == Head(events)
             child == a.Attributes.attrs[e.path[Len(e.path)].name]
         IN  validate(child, [AttributePath |-> e.path, Config |-> req.Config],
                      Response(<<>>, NilValue)).Diagnostics
             \o VisitDiagnostics(Tail(events))

\* the visits of the children of the elements or keys of the receiver
ElementVisits ==
    SelectSeq(resp.log,
              LAMBDA e : /\ e.ev = "validate"
                         /\ Len(e.path) = Len(req.AttributePath) + 2
                         /\ SubSeq(e.path, 1, Len(req.AttributePath))
                                = req.AttributePath)

\* what the receiver itself appends before and after it walks its children
OwnBefore ==
    runValidators(a.Validators, 1,
        [AttributePath |-> req.AttributePath, Config |-> req.Config,
         AttributeConfig |-> Resolved.value],
        Response(Resolved.diags, NilValue)).Diagnostics

OwnAfter ==
    deprecation(a, Resolved.value, req.AttributePath,
                Response(<<>>, NilValue)).Diagnostics

ListWalk ==
    /\ ValidateResolved
    /\ ~HasValueType(a)
    /\ a.Attributes.nm = NestingModeList
    /\ Resolved.value.kind = "types.List"

C2_ListVisitsEveryElement ==
    ListWalk =>
        /\ \A i \in 0..(Resolved.value.elems - 1) : \A c \in ChildNames(a) :
                Len(EventsAt("validate",
                        WithAttributeName(
                            WithElementKeyInt(req.AttributePath, i), c))) = 1
        /\ Len(ElementVisits) = Resolved.value.elems * Cardinality(ChildNames(a))
        /\ Appended = OwnBefore \o VisitDiagnostics(ElementVisits) \o OwnAfter

\* two elements, two children; the accessor fails at [0].a, and [1].a and
\* [1].b are validated all the same
C2_Witness ==
    /\ ListWalk
    /\ Resolved.value.elems = 2
    /\ ChildNames(a) = {"a", "b"}
    /\ a.Attributes.attrs["a"] = Checked
    /\ req.Config.bad =
        {WithAttributeName(WithElementKeyInt(req.AttributePath, 0), "a")}
    /\ Len(EventsAt("Validate",
            WithAttributeName(WithElementKeyInt(req.AttributePath, 1), "a"))) = 1
    /\ Len(EventsAt("validate",
            WithAttributeName(WithElementKeyInt(req.AttributePath, 1), "b"))) = 1

----------------------------------------------------------------------------
(* C3: once the Attribute is well-formed and its value has resolved        *)
(* without error, validate invokes every validator exactly once, in         *)
(* sequence order, with the resolved value and the current path, whatever   *)
(* errors the earlier ones appended; and the children are still walked.     *)
C3_EveryValidatorRuns ==
    ValidateResolved =>
        /\ EventsAt("Validate", req.AttributePath) =
            [k \in 1..Len(a.Validators) |->
                Event("Validate", req.AttributePath, a.Validators[k], k,
                      Resolved.value)]
        /\ (~a.Attributes.isNil /\ a.Attributes.nm = NestingModeSingle) =>
                \A c \in ChildNames(a) :
                    Len(EventsAt("validate",
                            WithAttributeName(req.AttributePath, c))) = 1

\* a validator that reports an error, one after it, and children
C3_Witness ==
    /\ ValidateResolved
    /\ Len(a.Validators) = 2
    /\ a.Validators[1] = "vErr"
    /\ a.Attributes.nm = NestingModeSingle
    /\ ChildNames(a) = {"a", "b"}
    /\ Len(EventsAt("Validate", req.AttributePath)) = 2
    /\ Len(EventsAt("validate", WithAttributeName(req.AttributePath, "b"))) = 1

----------------------------------------------------------------------------
(* C4: if resolving the value at the current path fails (the accessor      *)
(* returns diagnostics), validate appends those diagnostics and stops: no   *)
(* validator is invoked, no child is visited, no deprecation warning is     *)
(* appended.                                                                *)

\* validate appended what the accessor returned, and called nothing else
StoppedAfterResolving ==
    /\ KeepsEarlier
    /\ Appended = Resolved.diags
    /\ resp.log =
        <<Event("validate", req.AttributePath, "", 0, NilValue),
          Event("GetAttribute", req.AttributePath, req.Config.name, 0,
                NilValue)>>

\* C4 as claimed: any diagnostics the accessor returns stop the subtree
C4_AnyDiagnosticsStop ==
    (Returned("validate") /\ WellFormed(a) /\ Resolved.diags # <<>>) =>
        StoppedAfterResolving

\* C4 as amended: the subtree stops when the diagnostics the accessor returns
\* hold an error; diagnostics that hold none are appended and validate goes on
C4_ErrorDiagnosticsStop ==
    (Returned("validate") /\ WellFormed(a) /\ DiagsHasErrors(Resolved.diags)) =>
        StoppedAfterResolving

\* the accessor fails on a branch with validators, children and a
\* deprecation message
C4_Witness ==
    /\ Returned("validate")
    /\ WellFormed(a)
    /\ DiagsHasErrors(Resolved.diags)
    /\ a.Validators # <<>> /\ HasChildren(a) /\ a.DeprecationMessage # ""
    /\ Len(resp.Diagnostics) = 1

----------------------------------------------------------------------------
(* C5: for a well-formed Attribute whose value resolves, validate appends  *)
(* a warning with deprecationMessage as its detail, at the current path,    *)
(* if and only if deprecationMessage is non-empty and the resolved value    *)
(* is non-null; the warning comes after every diagnostic of the validators  *)
(* and descendants, also when descendants reported errors.                  *)

NonNull(value) == value # NilValue /\ ~value.null

IsDeprecationWarning(d) ==
    /\ d.Severity = SeverityWarning
    /\ d.Detail = a.DeprecationMessage
    /\ d.Attribute = req.AttributePath

Deprecated == \E i \in 1..Len(Appended) : IsDeprecationWarning(Appended[i])

DeprecationAsClaimed ==
    /\ Deprecated <=> (a.DeprecationMessage # "" /\ NonNull(Resolved.value))
    /\ Deprecated =>
        /\ IsDeprecationWarning(Appended[Len(Appended)])
        /\ \A i \in 1..(Len(Appended) - 1) : ~IsDeprecationWarning(Appended[i])

\* validate ended on an "Attribute Validation Error" at the current path
EndedInValidationError ==
    /\ Appended # <<>>
    /\ Appended[Len(Appended)].Summary = "Attribute Validation Error"
    /\ Appended[Len(Appended)].Attribute = req.AttributePath

\* C5 as claimed
C5_DeprecatedIffNonNull == ValidateResolved => DeprecationAsClaimed

\* C5 as amended: the same, unless validate ended on an "Attribute
\* Validation Error" at the current path (a value that is not of the nesting
\* mode's type, a nesting mode that is not recognized, a value that does not
\* convert); then it returned before the warning
C5_DeprecatedUnlessEnded ==
    (ValidateResolved /\ ~EndedInValidationError) => DeprecationAsClaimed

\* a deprecated branch with a non-null value whose child left an error
C5_Witness ==
    /\ ValidateResolved
    /\ a.DeprecationMessage # ""
    /\ a.Attributes.nm = NestingModeSingle
    /\ \E c \in ChildNames(a) : a.Attributes.attrs[c] = Undefined
    /\ NonNull(Resolved.value)
    /\ DiagsHasErrors(Appended)
    /\ IsDeprecationWarning(Appended[Len(Appended)])

----------------------------------------------------------------------------
(* C6: the children of the nested-object descriptor tfprotov6SchemaAttribute *)
(* returns hold exactly one record per child name, in strictly ascending    *)
(* order of name, whatever order the children map was iterated in.          *)

RECURSIVE Canonical(_, _)
\* the record w of the Attribute attr, and those below it
Canonical(w, attr) ==
    HasValueType(attr) \/
        LET children == w.NestedType.Attributes
        IN  /\ Len(children) = Cardinality(ChildNames(attr))
            /\ {children[i].Name : i \in 1..Len(children)} = ChildNames(attr)
            /\ \A i \in 1..(Len(children) - 1) :
                    StringLess(children[i].Name, children[i + 1].Name)
            /\ \A i \in 1..Len(children) :
                    Canonical(children[i],
                              attr.Attributes.attrs[children[i].Name])

C6_ChildrenInNameOrder ==
    (Returned("tfprotov6SchemaAttribute") /\ resp.err = "") =>
        Canonical(resp.schemaAttribute, a)

\* three children, iterated from the last name to the first
C6_Witness ==
    /\ Returned("tfprotov6SchemaAttribute")
    /\ resp.err = ""
    /\ ChildNames(a) = Names
    /\ order = <<"b", "ab", "a">>
    /\ [i \in 1..3 |-> resp.schemaAttribute.NestedType.Attributes[i].Name]
        = <<"a", "ab", "b">>

----------------------------------------------------------------------------
(* C7: tfprotov6SchemaAttribute returns an error and no wire attribute     *)
(* whenever the Attribute, or a descendant reached through children, has    *)
(* both valueType and non-empty nestedAttributes, has neither, or has an    *)
(* unrecognized nesting mode; and a wire attribute and no error otherwise.  *)

Recognized(nm) ==
    nm \in {NestingModeSingle, NestingModeList, NestingModeSet, NestingModeMap}

\* the defects of one node, as claimed
NodeDefectClaimed(attr) ==
    \/ ~WellFormed(attr)
    \/ ~attr.Attributes.isNil /\ ~Recognized(attr.Attributes.nm)

\* the defects of one node: the nesting mode counts on a node that has no
\* valueType
NodeDefect(attr) ==
    \/ ~WellFormed(attr)
    \/ ~HasValueType(attr) /\ ~Recognized(attr.Attributes.nm)

RECURSIVE DefectClaimed(_)
DefectClaimed(attr) ==
    \/ NodeDefectClaimed(attr)
    \/ \E c \in ChildNames(attr) : DefectClaimed(attr.Attributes.attrs[c])

RECURSIVE Defect(_)
Defect(attr) ==
    \/ NodeDefect(attr)
    \/ \E c \in ChildNames(attr) : Defect(attr.Attributes.attrs[c])

FailsWhole ==
    resp.err # "" /\ resp.schemaAttribute = NilSchemaAttribute

Converts ==
    resp.err = "" /\ ~resp.schemaAttribute.isNil

\* C7 as claimed
C7_FailsIffDefectClaimed ==
    Returned("tfprotov6SchemaAttribute") =>
        IF DefectClaimed(a) THEN FailsWhole ELSE Converts

\* C7 as amended: an unrecognized nesting mode fails the conversion on a node
\* that has no valueType; a node with a valueType and a nestedAttributes of
\* zero children converts as a leaf whatever its nesting mode
C7_FailsIffDefect ==
    Returned("tfprotov6SchemaAttribute") =>
        IF Defect(a) THEN FailsWhole ELSE Converts

\* the one defect is an unrecognized nesting mode two levels down
C7_Witness ==
    /\ Returned("tfprotov6SchemaAttribute")
    /\ ~NodeDefect(a)
    /\ \A c \in ChildNames(a) :
        LET child == a.Attributes.attrs[c]
        IN  IF c = "ab"
            THEN /\ WellFormed(child) /\ ~HasValueType(child)
                 /\ ~Recognized(child.Attributes.nm)
                 /\ \A g \in ChildNames(child) :
                        ~Defect(child.Attributes.attrs[g])
            ELSE ~Defect(child)
    /\ FailsWhole

----------------------------------------------------------------------------
(* C8: the plan modifiers run in sequence order as a pipeline: the first   *)
(* is handed the plan value resolved at the path, each later one the plan   *)
(* value its predecessor left in the response; all are handed the same      *)
(* resolved config and state values.                                        *)
C8_ModifiersArePipeline ==
    Returned("modifyPlan") =>
        \A k \in 1..Len(resp.calls) :
            LET c == resp.calls[k]
            IN  /\ c.k = k
                /\ c.who = a.PlanModifiers[k]
                /\ c.req.AttributePath = req.AttributePath
                /\ c.req.AttributeConfig =
                    GetAttribute(req.Config, req.AttributePath).value
                /\ c.req.AttributeState =
                    GetAttribute(req.State, req.AttributePath).value
                /\ c.req.AttributePlan =
                    IF k = 1
                    THEN GetAttribute(req.Plan, req.AttributePath).value
                    ELSE resp.calls[k - 1].out

\* M1 sets the value to X, M2 appends a suffix to what it is handed
C8_Witness ==
    /\ Returned("modifyPlan")
    /\ a.PlanModifiers = <<"mSetX", "mSuffix">>
    /\ Len(resp.calls) = 2
    /\ GetAttribute(req.Plan, req.AttributePath).value = StringValue(<<"p">>)
    /\ resp.calls[2].req.AttributePlan = StringValue(<<"X">>)
    /\ resp.AttributePlan = StringValue(<<"X", "-suffix">>)

----------------------------------------------------------------------------
(* C9: the pipeline stops after a modifier exactly when that modifier      *)
(* produced an error diagnostic; a modifier that produced none is followed  *)
(* by the next one, also when the diagnostics handed to modifyPlan already  *)
(* held an error of an earlier attribute.                                   *)

\* modifyPlan resolved its three values and reached the modifiers
ModifyResolved ==
    /\ Returned("modifyPlan")
    /\ ~DiagsHasErrors(GetAttribute(req.Config, req.AttributePath).diags)
    /\ ~DiagsHasErrors(GetAttribute(req.State, req.AttributePath).diags)
    /\ ~DiagsHasErrors(GetAttribute(req.Plan, req.AttributePath).diags)

C9_StopsOnOwnErrorOnly ==
    ModifyResolved =>
        /\ a.PlanModifiers # <<>> => resp.calls # <<>>
        /\ \A k \in 1..Len(resp.calls) :
            /\ k < Len(resp.calls) => ~DiagsHasErrors(resp.calls[k].appended)
            /\ (k = Len(resp.calls) /\ k < Len(a.PlanModifiers)) =>
                    DiagsHasErrors(resp.calls[k].appended)

----------------------------------------------------------------------------
(* C10: modifyPlan on a branch recurses into its children as validate      *)
(* does: for nesting mode single once per child at path.child, for list     *)
(* once per element index and child, for map once per key and child.        *)

\* the paths validate walks the children of the receiver at
ChildPaths ==
    LET value == GetAttribute(req.Config, req.AttributePath).value
        nm == a.Attributes.nm
        bases ==
            CASE nm = NestingModeSingle -> {req.AttributePath}
              [] nm = NestingModeList /\ value.kind = "types.List" ->
                    {WithElementKeyInt(req.AttributePath, i) :
                        i \in 0..(value.elems - 1)}
              [] nm = NestingModeMap /\ value.kind = "types.Map" ->
                    {WithElementKeyString(req.AttributePath, value.keys[i]) :
                        i \in 1..Len(value.keys)}
              [] OTHER -> {}
    IN  {WithAttributeName(b, c) : b \in bases, c \in ChildNames(a)}

C10_ModifyPlanWalksChildren ==
    (ModifyResolved /\ ~DiagsHasErrors(resp.Diagnostics)
        /\ ~HasValueType(a) /\ HasChildren(a)) =>
        \A p \in ChildPaths :
            /\ Len(EventsAt("modifyPlan", p)) = 1
            /\ \E k \in 1..Len(resp.calls) : resp.calls[k].req.AttributePath = p

----------------------------------------------------------------------------
(* Equal. *)

RECURSIVE Structure(_)
\* an Attribute without its Validators and PlanModifiers, at every depth
Structure(attr) ==
    [Type |-> attr.Type,
     Attributes |->
        [attr.Attributes EXCEPT
            !.attrs = [n \in DOMAIN attr.Attributes.attrs |->
                          Structure(attr.Attributes.attrs[n])]],
     Description |-> attr.Description,
     MarkdownDescription |-> attr.MarkdownDescription,
     Required |-> attr.Required, Optional |-> attr.Optional,
     Computed |-> attr.Computed, Sensitive |-> attr.Sensitive,
     DeprecationMessage |-> attr.DeprecationMessage]

\* C11: Equal is true exactly when the two Attributes agree on the type, the
\* nested attributes (nil or not, then mode, bounds and children, compared
\* the same way), the descriptions, the flags and the deprecation message;
\* Validators and PlanModifiers, at any depth, have no part in it; and
\* comparing the other way round gives the same answer.
C11_EqualIsStructural ==
    Returned("Equal") =>
        /\ resp.equal = (Structure(a) = Structure(o))
        /\ resp.equal = Equal(o, a)

\* branches found equal though their own validators and those of their
\* children differ
C11_Witness ==
    /\ Returned("Equal")
    /\ resp.equal
    /\ HasChildren(a)
    /\ a.Validators # o.Validators
    /\ \E n \in DOMAIN a.Attributes.attrs :
          a.Attributes.attrs[n].Validators # o.Attributes.attrs[n].Validators

----------------------------------------------------------------------------
(* What validate and tfprotov6SchemaAttribute take for a leaf. *)

\* tfprotov6SchemaAttribute converts the Attribute without error and as a
\* leaf: the wire record carries a type and no nested object
ConvertsAsLeaf(attr) ==
    LET converted == tfprotov6SchemaAttribute(attr, "x", req.AttributePath)
    IN  /\ converted.err = ""
        /\ converted.schemaAttribute.Type # NilType
        /\ converted.schemaAttribute.NestedType.isNil

\* a diagnostic of the switch on the nesting mode
NestingDiagnostic(d) ==
    /\ d.Summary = "Attribute Validation Error"
    /\ d.Detail \in {"cannot walk schema: value type",
                     "cannot walk schema: nesting mode"}

\* C12: an Attribute that tfprotov6SchemaAttribute converts as a leaf is a
\* leaf to validate as well: validate leaves the response it would leave
\* were Attributes nil, and appends no diagnostic of the switch on the
\* nesting mode.
C12_LeafToBoth ==
    (Returned("validate") /\ ConvertsAsLeaf(a)) =>
        /\ resp = validate([a EXCEPT !.Attributes = NilAttributes], req, resp0)
        /\ \A i \in 1..Len(Appended) : ~NestingDiagnostic(Appended[i])

----------------------------------------------------------------------------
(* The plan value modifyPlan starts from. *)

\* the plan modifiers of the model that assign no plan value
AssignsNothing(m) == m \in {"mNone", "mWarn", "mErr"}

\* C13: the plan value modifyPlan returns starts as the plan value resolved
\* at the path: with no plan modifier, or with none that assigns a plan value,
\* the response holds the resolved plan value, and a modifier that follows
\* only modifiers that assigned nothing is handed the resolved plan value.
C13_PlanStartsResolved ==
    ModifyResolved =>
        LET plan == GetAttribute(req.Plan, req.AttributePath).value
        IN  /\ (\A k \in 1..Len(resp.calls) :
                    AssignsNothing(resp.calls[k].who))
                => resp.AttributePlan = plan
            /\ \A k \in 2..Len(resp.calls) :
                 (\A j \in 1..(k - 1) : AssignsNothing(resp.calls[j].who))
                 => resp.calls[k].req.AttributePlan = plan

====
